---- MODULE Spec2Model ----
(***************************************************************************)
(* Model of htmresearch/frameworks/classification/classification_network.py *)
(*                                                                         *)
(* Two entry points of the module are modelled, each as its own            *)
(* specification over the same variables:                                  *)
(*   SpecConfigure : configureNetwork / createNetwork / _createEncoder     *)
(*   SpecTrain     : trainNetwork                                          *)
(* The regions of the host framework are modelled by what this file reads  *)
(* and writes of them: their parameters, their links, their learningMode.  *)
(***************************************************************************)
EXTENDS Integers, Sequences, FiniteSets, TLC

(***************************************************************************)
(* Bounds of the model.                                                    *)
(***************************************************************************)
MaxRecords == 3
MaxPartitions == 3
MaxIndex == 2
MaxWidth == 2
MaxCellsPerColumn == 2

TEST_PARTITION_NAME == "test"

\* Regions of the network that have a learningMode and may be named in a schedule.
TrainableRegions == {"sp", "tm"}

PartitionNames == TrainableRegions \cup {TEST_PARTITION_NAME}

\* A partition is the tuple (regionName, index).
Partitions == PartitionNames \X (0..MaxIndex)

Schedules == UNION {[1..n -> Partitions] : n \in 0..MaxPartitions}

\* Category labels of the data set and of the classifier's inference.
Categories == {0, 1}

VARIABLES
  \* ---- trainNetwork ----
  tpc,                \* "idle", "loop", "returned", "raised"
  terror,             \* exception that ended trainNetwork, or "none"
  schedule,           \* value of the networkPartitions argument at the call
  lists,              \* list objects: the caller's list and the deep copy
  partitions,         \* which list object the local `partitions` refers to
  numRecords,
  recordNumber,       \* next value of the loop counter
  learningMode,       \* region -> its learningMode parameter
  trainedRegionNames,
  numCorrectlyClassifiedRecords,
  numCorrectlyClassifiedTestRecords,
  numTestRecords,
  sensorValueTrace,
  classificationAccuracyTrace,
  testClassificationAccuracyTrace,
  actualValue,
  inferredValue,
  runLearning,        \* per network.run(1): the regions whose learningMode was True
  testRecords,        \* record numbers tallied as test records
  \* ---- configureNetwork / createNetwork / _createEncoder ----
  cpc,                \* position in configureNetwork/createNetwork
  cfg,                \* the arguments of the call
  result,             \* "none", "network", or the exception raised
  regions,            \* regions added to the network: name -> parameters
  links,              \* links of the network: <<source, destination, destInput>>
  sensorEncoder,      \* encoder of the sensor region
  previousRegion,
  previousRegionWidth,
  dataSourceRead,     \* the data source was queried (getFieldMin/getFieldMax)
  initialized         \* network.initialize() was called

trainVars == <<tpc, terror, schedule, lists, partitions, numRecords, recordNumber,
               learningMode, trainedRegionNames, numCorrectlyClassifiedRecords,
               numCorrectlyClassifiedTestRecords, numTestRecords, sensorValueTrace,
               classificationAccuracyTrace, testClassificationAccuracyTrace,
               actualValue, inferredValue, runLearning, testRecords>>

configVars == <<cpc, cfg, result, regions, links, sensorEncoder, previousRegion,
                previousRegionWidth, dataSourceRead, initialized>>

vars == <<trainVars, configVars>>

(***************************************************************************)
(* trainNetwork                                                            *)
(***************************************************************************)

\* copy.deepcopy(networkPartitions): a fresh list object with equal entries.
deepcopy_aliased(obj) == obj

deepcopy(obj) == "copy"

\* round(100.0 * num / den, 2), in hundredths of a percent (half rounds up).
Round2Percent(num, den) == (2 * 10000 * num + den) \div (2 * den)

\* The sensor's sourceOut for a record of the data set.
SourceOut(n) == n % 3

CountMatch_always(count, actual, inferred) == count + 1

\* if actualValue == inferredValue: count += 1
CountMatch(count, actual, inferred) ==
  IF actual = inferred THEN count + 1 ELSE count

\* _enableRegionLearning: learningMode of the one region is set to True.
_enableRegionLearning(lm, regionName) == [lm EXCEPT ![regionName] = TRUE]

\* _stopLearning: learningMode of every trained region is set to False.
_stopLearning(lm, trained) ==
  [r \in DOMAIN lm |->
     IF \E i \in 1..Len(trained) : trained[i] = r THEN FALSE ELSE lm[r]]

LearningRegions(lm) == {r \in DOMAIN lm : lm[r]}

TrainIdle ==
  /\ tpc = "idle"
  /\ terror = "none"
  /\ schedule = <<>>
  /\ lists = [networkPartitions |-> <<>>, copy |-> <<>>]
  /\ partitions = "networkPartitions"
  /\ numRecords = 0
  /\ recordNumber = 0
  /\ learningMode = [r \in TrainableRegions |-> FALSE]
  /\ trainedRegionNames = <<>>
  /\ numCorrectlyClassifiedRecords = 0
  /\ numCorrectlyClassifiedTestRecords = 0
  /\ numTestRecords = 0
  /\ sensorValueTrace = <<>>
  /\ classificationAccuracyTrace = <<>>
  /\ testClassificationAccuracyTrace = <<>>
  /\ actualValue = 0
  /\ inferredValue = 0
  /\ runLearning = <<>>
  /\ testRecords = {}

\* Lines 379-420: the call, the deep copy and the initial locals.
TrainStart ==
  /\ tpc = "idle"
  /\ \E s \in Schedules, n \in 0..MaxRecords :
       /\ schedule' = s
       /\ numRecords' = n
       /\ lists' = [networkPartitions |-> s, copy |-> s]
  /\ partitions' = deepcopy("networkPartitions")
  /\ tpc' = "loop"
  /\ UNCHANGED <<terror, recordNumber, learningMode, trainedRegionNames,
                 numCorrectlyClassifiedRecords, numCorrectlyClassifiedTestRecords,
                 numTestRecords, sensorValueTrace, classificationAccuracyTrace,
                 testClassificationAccuracyTrace, actualValue, inferredValue,
                 runLearning, testRecords>>
  /\ UNCHANGED configVars

\* Lines 421-487: one iteration of the loop over the records.
TrainIterate ==
  /\ tpc = "loop"
  /\ recordNumber < numRecords
  /\ \E actual \in Categories, inferred \in Categories :
       LET P == lists[partitions]
           atPartition == Len(P) > 0 /\ recordNumber = P[1][2]
           isTest == atPartition /\ P[1][1] = TEST_PARTITION_NAME
           starts == atPartition /\ ~isTest
           P2 == IF starts THEN Tail(P) ELSE P
           trained2 == IF starts THEN Append(trainedRegionNames, P[1][1])
                       ELSE trainedRegionNames
           lm2 == IF isTest THEN _stopLearning(learningMode, trainedRegionNames)
                  ELSE IF starts THEN _enableRegionLearning(learningMode, P[1][1])
                  ELSE learningMode
           raises == Len(P) = 0 \/ Len(P2) = 0
           inTest == ~raises /\ recordNumber >= P2[Len(P2)][2]
           nCorrect == CountMatch(numCorrectlyClassifiedRecords, actual, inferred)
           nTestCorrect == IF actual = inferred
                           THEN numCorrectlyClassifiedTestRecords + 1
                           ELSE numCorrectlyClassifiedTestRecords
       IN
       \* network.run(1) and the overall tallies (lines 424-436)
       /\ runLearning' = Append(runLearning, LearningRegions(learningMode))
       /\ actualValue' = actual
       /\ inferredValue' = inferred
       /\ sensorValueTrace' = Append(sensorValueTrace, SourceOut(recordNumber))
       /\ numCorrectlyClassifiedRecords' = nCorrect
       /\ classificationAccuracyTrace' =
            Append(classificationAccuracyTrace, Round2Percent(nCorrect, numRecords))
       \* end of the current partition (lines 460-474)
       /\ lists' = [lists EXCEPT ![partitions] = P2]
       /\ trainedRegionNames' = trained2
       /\ learningMode' = lm2
       \* the test tallies (lines 476-487)
       /\ IF inTest
          THEN /\ numCorrectlyClassifiedTestRecords' = nTestCorrect
               /\ numTestRecords' = numTestRecords + 1
               /\ testClassificationAccuracyTrace' =
                    Append(testClassificationAccuracyTrace,
                           Round2Percent(nTestCorrect, numTestRecords + 1))
               /\ testRecords' = testRecords \cup {recordNumber}
          ELSE UNCHANGED <<numCorrectlyClassifiedTestRecords, numTestRecords,
                           testClassificationAccuracyTrace, testRecords>>
       \* partitions[0] or partitions[-1] of an empty list raises IndexError
       /\ IF raises
          THEN /\ tpc' = "raised"
               /\ terror' = "IndexError"
               /\ UNCHANGED recordNumber
          ELSE /\ recordNumber' = recordNumber + 1
               /\ UNCHANGED <<tpc, terror>>
  /\ UNCHANGED <<schedule, partitions, numRecords>>
  /\ UNCHANGED configVars

\* Lines 489-512: the result log and the returned traces.
TrainFinish ==
  /\ tpc = "loop"
  /\ recordNumber = numRecords
  /\ IF Len(testClassificationAccuracyTrace) = 0
     THEN tpc' = "raised" /\ terror' = "IndexError"
     ELSE tpc' = "returned" /\ UNCHANGED terror
  /\ UNCHANGED <<schedule, lists, partitions, numRecords, recordNumber,
                 learningMode, trainedRegionNames, numCorrectlyClassifiedRecords,
                 numCorrectlyClassifiedTestRecords, numTestRecords,
                 sensorValueTrace, classificationAccuracyTrace,
                 testClassificationAccuracyTrace, actualValue, inferredValue,
                 runLearning, testRecords>>
  /\ UNCHANGED configVars

(***************************************************************************)
(* configureNetwork, createNetwork, _createEncoder                         *)
(***************************************************************************)

\* Values of sensorRegionConfig["encoders"] ("absent": the key is missing).
EncoderSpecs == {"absent", "None", "emptyDict", "dict", "dictWithScalarEncoder"}

\* Values of the `encoder` argument.
EncoderArgs == {"None", "encoderObject"}

\* Values _createEncoder may be called with.
CreateEncoderArgs ==
  {"None", "emptyDict", "dict", "dictWithScalarEncoder", "encoderObject", "list"}

Widths == 1..MaxWidth

StageNames == {"sensor", "sp", "tm", "tp", "classifier"}

\* isinstance(x, dict)
IsDict(x) == x \in {"emptyDict", "dict", "dictWithScalarEncoder"}

\* Python truth value of x
Truthy(x) == x \in {"dict", "dictWithScalarEncoder", "encoderObject", "list"}

\* dict.get("encoders"): None when the key is missing
GetEncoders(spec) == IF spec = "absent" THEN "None" ELSE spec

DefaultCfg ==
  [entry |-> "none", encoders |-> "None", encoder |-> "None",
   enabled |-> [s \in StageNames |-> FALSE],
   encoderWidth |-> 1, spInputWidth |-> 1, spColumnCount |-> 1,
   tmColumnCount |-> 1, cellsPerColumn |-> 1, tpInputWidth |-> 1,
   partitionIn |-> FALSE]

NetworkCfgs(entry) ==
  [entry : {entry}, encoders : EncoderSpecs, encoder : EncoderArgs,
   enabled : [StageNames -> BOOLEAN],
   encoderWidth : Widths, spInputWidth : Widths, spColumnCount : Widths,
   tmColumnCount : Widths, cellsPerColumn : 1..MaxCellsPerColumn,
   tpInputWidth : Widths, partitionIn : BOOLEAN]

\* _createEncoder: TypeError unless the argument is a dict, else a MultiEncoder.
_createEncoder(encoders) ==
  IF ~IsDict(encoders) THEN "TypeError" ELSE "MultiEncoder"

NoEncoderSpecified_noneOnly(encoderDict, encoder) ==
  encoderDict = "None" /\ ~Truthy(encoder)

\* configureNetwork: `if not encoderDict and not encoder`
NoEncoderSpecified(encoderDict, encoder) ==
  ~Truthy(encoderDict) /\ ~Truthy(encoder)

_validateRegionWidths_never(previousWidth, currentWidth) == "ok"

\* _validateRegionWidths: ValueError when the two widths differ.
_validateRegionWidths(previousWidth, currentWidth) ==
  IF previousWidth # currentWidth THEN "ValueError: Region widths do not fit"
  ELSE "ok"

_linkRegions_fromSensor(lnks, sensorRegionName, previousRegionName, currentRegionName) ==
  lnks \o << <<sensorRegionName, currentRegionName, "data">>,
             <<sensorRegionName, currentRegionName, "resetIn">>,
             <<sensorRegionName, currentRegionName, "sequenceIdIn">> >>

\* _linkRegions: the data link from the previous region, and the sensor's
\* reset and sequence id.
_linkRegions(lnks, sensorRegionName, previousRegionName, currentRegionName) ==
  lnks \o << <<previousRegionName, currentRegionName, "data">>,
             <<sensorRegionName, currentRegionName, "resetIn">>,
             <<sensorRegionName, currentRegionName, "sequenceIdIn">> >>

\* network.addRegion(regionName, regionType, params)
_addRegisteredRegion(regs, regionName, params) ==
  [n \in (DOMAIN regs) \cup {regionName} |->
     IF n = regionName THEN params ELSE regs[n]]

\* _createRegion: the region is added with learning off and inference on.
_createRegion(regs, regionName, params) ==
  _addRegisteredRegion(regs, regionName,
     [learningMode |-> FALSE, inferenceMode |-> TRUE,
      inputWidth |-> params.inputWidth, columnCount |-> params.columnCount,
      cellsPerColumn |-> params.cellsPerColumn])

ConfigIdle ==
  /\ cpc = "idle"
  /\ cfg = DefaultCfg
  /\ result = "none"
  /\ regions = <<>>
  /\ links = <<>>
  /\ sensorEncoder = "unset"
  /\ previousRegion = "none"
  /\ previousRegionWidth = 0
  /\ dataSourceRead = FALSE
  /\ initialized = FALSE

CallConfigureNetwork ==
  /\ cpc = "idle"
  /\ \E c \in NetworkCfgs("configureNetwork") : cfg' = c
  /\ cpc' = "configureNetwork"
  /\ UNCHANGED <<result, regions, links, sensorEncoder, previousRegion,
                 previousRegionWidth, dataSourceRead, initialized>>
  /\ UNCHANGED trainVars

CallCreateNetwork ==
  /\ cpc = "idle"
  /\ \E c \in NetworkCfgs("createNetwork") : cfg' = c
  /\ cpc' = "createSensor"
  /\ UNCHANGED <<result, regions, links, sensorEncoder, previousRegion,
                 previousRegionWidth, dataSourceRead, initialized>>
  /\ UNCHANGED trainVars

\* A call of _createEncoder on its own (lines 49-75).
Call_createEncoder ==
  /\ cpc = "idle"
  /\ \E a \in CreateEncoderArgs :
       /\ cfg' = [DefaultCfg EXCEPT !.entry = "_createEncoder", !.encoders = a]
       /\ result' = _createEncoder(a)
  /\ cpc' = "done"
  /\ UNCHANGED <<regions, links, sensorEncoder, previousRegion,
                 previousRegionWidth, dataSourceRead, initialized>>
  /\ UNCHANGED trainVars

\* configureNetwork, lines 218-225: the encoder check and the scalar encoder's
\* minimum and maximum read from the data source.
ConfigureNetwork ==
  /\ cpc = "configureNetwork"
  /\ LET encoderDict == GetEncoders(cfg.encoders) IN
     IF NoEncoderSpecified(encoderDict, cfg.encoder)
     THEN /\ result' = "ValueError: No encoder specified"
          /\ cpc' = "done"
          /\ UNCHANGED dataSourceRead
     ELSE IF ~IsDict(encoderDict)
     THEN \* encoderDict.get("scalarEncoder") on None
          /\ result' = "AttributeError"
          /\ cpc' = "done"
          /\ UNCHANGED dataSourceRead
     ELSE /\ dataSourceRead' = (encoderDict = "dictWithScalarEncoder")
          /\ cpc' = "createSensor"
          /\ UNCHANGED result
  /\ UNCHANGED <<cfg, regions, links, sensorEncoder, previousRegion,
                 previousRegionWidth, initialized>>
  /\ UNCHANGED trainVars

\* createNetwork, lines 246-262, with _createSensorRegion (lines 111-131).
CreateSensor ==
  /\ cpc = "createSensor"
  /\ IF cfg.encoders = "absent"
     THEN \* regionConfig["encoders"]
          /\ result' = "KeyError"
          /\ cpc' = "done"
          /\ UNCHANGED <<regions, sensorEncoder, previousRegion, previousRegionWidth>>
     ELSE LET encoders == IF ~Truthy(cfg.encoders) THEN cfg.encoder
                          ELSE cfg.encoders
              enc == IF IsDict(encoders) THEN _createEncoder(encoders)
                     ELSE encoders
          IN /\ regions' = _addRegisteredRegion(regions, "sensor",
                                                [dataSource |-> TRUE])
             /\ sensorEncoder' = enc
             /\ IF enc = "None"
                THEN \* sensorRegion.encoder.getWidth() on None
                     /\ result' = "AttributeError"
                     /\ cpc' = "done"
                     /\ UNCHANGED <<previousRegion, previousRegionWidth>>
                ELSE /\ previousRegion' = "sensor"
                     /\ previousRegionWidth' = cfg.encoderWidth
                     /\ cpc' = "createSP"
                     /\ UNCHANGED result
  /\ UNCHANGED <<cfg, links, dataSourceRead, initialized>>
  /\ UNCHANGED trainVars

\* One intermediate stage of createNetwork: the region is created from its
\* parameters, its width is validated against the previous region's, then it
\* is linked and becomes the previous region.
CreateStage(here, next, regionName, params, currentWidth, outputWidth) ==
  /\ cpc = here
  /\ IF ~cfg.enabled[regionName]
     THEN /\ cpc' = next
          /\ UNCHANGED <<result, regions, links, previousRegion, previousRegionWidth>>
     ELSE /\ regions' = _createRegion(regions, regionName, params)
          /\ LET v == _validateRegionWidths(previousRegionWidth, currentWidth) IN
             IF v # "ok"
             THEN /\ result' = v
                  /\ cpc' = "done"
                  /\ UNCHANGED <<links, previousRegion, previousRegionWidth>>
             ELSE /\ links' = _linkRegions(links, "sensor", previousRegion, regionName)
                  /\ previousRegion' = regionName
                  /\ previousRegionWidth' = outputWidth
                  /\ cpc' = next
                  /\ UNCHANGED result
  /\ UNCHANGED <<cfg, sensorEncoder, dataSourceRead, initialized>>
  /\ UNCHANGED trainVars

\* Lines 264-277: inputWidth is set to the encoder's width before creation.
CreateSP ==
  LET params == [inputWidth |-> cfg.encoderWidth,
                 columnCount |-> cfg.spColumnCount, cellsPerColumn |-> 1]
  IN CreateStage("createSP", "createTM", "sp", params,
                 params.inputWidth, params.columnCount)

\* Lines 279-293: inputWidth is set to the region's own columnCount.
CreateTM ==
  LET params == [inputWidth |-> cfg.tmColumnCount,
                 columnCount |-> cfg.tmColumnCount,
                 cellsPerColumn |-> cfg.cellsPerColumn]
  IN CreateStage("createTM", "createTP", "tm", params,
                 params.columnCount, params.columnCount * params.cellsPerColumn)

\* Lines 295-309: inputWidth is set to the previous region's width.
CreateTP ==
  LET params == [inputWidth |-> previousRegionWidth,
                 columnCount |-> 1, cellsPerColumn |-> 1]
  IN CreateStage("createTP", "createClassifier", "tp", params,
                 params.inputWidth, previousRegionWidth)

\* Lines 311-331: the classifier region and its links.
CreateClassifier ==
  /\ cpc = "createClassifier"
  /\ regions' = _createRegion(regions, "classifier",
                   [inputWidth |-> previousRegionWidth, columnCount |-> 1,
                    cellsPerColumn |-> 1])
  /\ links' = links
       \o << <<previousRegion, "classifier", "data">>,
             <<"sensor", "classifier", "categoryIn">> >>
       \o (IF cfg.partitionIn
           THEN << <<"sensor", "classifier", "partitionIn">> >> ELSE <<>>)
  /\ IF cfg.entry = "configureNetwork"
     THEN cpc' = "initialize" /\ UNCHANGED result
     ELSE cpc' = "done" /\ result' = "network"
  /\ UNCHANGED <<cfg, sensorEncoder, previousRegion, previousRegionWidth,
                 dataSourceRead, initialized>>
  /\ UNCHANGED trainVars

\* configureNetwork, lines 229-231.
InitializeNetwork ==
  /\ cpc = "initialize"
  /\ initialized' = TRUE
  /\ result' = "network"
  /\ cpc' = "done"
  /\ UNCHANGED <<cfg, regions, links, sensorEncoder, previousRegion,
                 previousRegionWidth, dataSourceRead>>
  /\ UNCHANGED trainVars

(***************************************************************************)
(* Specifications                                                          *)
(***************************************************************************)
InitTrain == TrainIdle /\ ConfigIdle

NextTrain == TrainStart \/ TrainIterate \/ TrainFinish

SpecTrain == InitTrain /\ [][NextTrain]_vars

InitConfigure == TrainIdle /\ ConfigIdle

NextConfigure ==
  \/ CallConfigureNetwork
  \/ CallCreateNetwork
  \/ Call_createEncoder
  \/ ConfigureNetwork
  \/ CreateSensor
  \/ CreateSP
  \/ CreateTM
  \/ CreateTP
  \/ CreateClassifier
  \/ InitializeNetwork

SpecConfigure == InitConfigure /\ [][NextConfigure]_vars

(***************************************************************************)
(* Properties of trainNetwork (checked under SpecTrain)                    *)
(***************************************************************************)

\* The schedules trainNetwork's documentation describes, with strictly
\* increasing indices: the test partition is the last entry and the only one
\* of that name, and every index is less than numRecords.
TestIsLastEntry(s) ==
  /\ Len(s) >= 1
  /\ s[Len(s)][1] = TEST_PARTITION_NAME
  /\ \A k \in 1..(Len(s) - 1) : s[k][1] # TEST_PARTITION_NAME

StrictlyIncreasing(s) == \A k \in 1..(Len(s) - 1) : s[k][2] < s[k + 1][2]

NonDecreasing(s) == \A k \in 1..(Len(s) - 1) : s[k][2] <= s[k + 1][2]

DistinctNames(s) == \A j, k \in 1..Len(s) : j # k => s[j][1] # s[k][1]

IndicesBelow(s, n) == \A k \in 1..Len(s) : s[k][2] < n

WellFormed(s, n) ==
  TestIsLastEntry(s) /\ StrictlyIncreasing(s) /\ IndicesBelow(s, n)

TestIndex(s) == s[Len(s)][2]

\* The 0-based numbers of the iterations whose network.run(1) ran with the
\* region's learningMode True.
LearningRuns(r) == {i \in 0..(Len(runLearning) - 1) : r \in runLearning[i + 1]}

IsFirstLearningRun(r, i) ==
  i \in LearningRuns(r) /\ \A j \in LearningRuns(r) : i <= j

\* C1: for a schedule with strictly increasing indices below numRecords that
\* ends with the test entry, the iteration that processes record idx is the
\* first one run with learningMode True for the region of entry (region, idx).
C1_LearningBeginsAtIndex ==
  (tpc = "returned" /\ WellFormed(schedule, numRecords)) =>
    \A k \in 1..(Len(schedule) - 1) :
      IsFirstLearningRun(schedule[k][1], schedule[k][2])

\* What the loop does instead: the flag is set after record idx has been run,
\* so the first iteration run with learning on is the one of record idx + 1.
LearningBeginsAfterIndex ==
  (tpc = "returned" /\ WellFormed(schedule, numRecords)) =>
    \A k \in 1..(Len(schedule) - 1) :
      (\A j \in 1..(k - 1) : schedule[j][1] # schedule[k][1]) =>
        IsFirstLearningRun(schedule[k][1], schedule[k][2] + 1)

\* C2: once the record whose number is the test partition's index has been
\* processed, learningMode is False for every region named in the schedule
\* before the test entry, until trainNetwork returns.  Stated for the
\* schedules whose last and only test entry follows entries of distinct
\* regions with non-decreasing, smaller indices, all below numRecords.
C2_NoLearningAfterTest ==
  (/\ tpc # "idle"
   /\ TestIsLastEntry(schedule)
   /\ DistinctNames(schedule)
   /\ NonDecreasing(schedule)
   /\ \A k \in 1..(Len(schedule) - 1) : schedule[k][2] < TestIndex(schedule)
   /\ IndicesBelow(schedule, numRecords)
   /\ recordNumber > TestIndex(schedule)) =>
    \A k \in 1..(Len(schedule) - 1) : ~learningMode[schedule[k][1]]

\* The same holds when the indices are strictly increasing.
NoLearningAfterTestWhenIncreasing ==
  (/\ tpc # "idle"
   /\ WellFormed(schedule, numRecords)
   /\ recordNumber > TestIndex(schedule)) =>
    \A k \in 1..(Len(schedule) - 1) : ~learningMode[schedule[k][1]]

\* C3: every record tallied as a test record was run by the network with
\* learningMode False in all regions (stated for the well-formed schedules).
C3_TestRecordsRunWithoutLearning ==
  WellFormed(schedule, numRecords) =>
    \A i \in testRecords : runLearning[i + 1] = {}

\* What holds instead: only the first test record may be run with learning on.
LaterTestRecordsRunWithoutLearning ==
  WellFormed(schedule, numRecords) =>
    \A i \in testRecords : i > TestIndex(schedule) => runLearning[i + 1] = {}

\* C4: the list the caller passed as networkPartitions keeps its entries, in
\* order, throughout the call and after it returns or raises.
C4_CallerPartitionsPreserved ==
  tpc # "idle" => lists["networkPartitions"] = schedule

\* C4 witness: a call on a schedule of full length that popped entries of its
\* internal copy and returned.
C4_Witness ==
  /\ tpc = "returned"
  /\ Len(lists[partitions]) < Len(schedule)
  /\ Len(schedule) = MaxPartitions

\* C9: the network is run once per record, numRecords times on return, and the
\* two traces then hold numRecords entries; the count of correctly classified
\* records never exceeds the records processed, grows by one exactly on the
\* iterations whose category equals the inference, and the overall accuracy
\* trace never decreases.
C9_RunsAndTallies ==
  /\ [](/\ Len(runLearning) = Len(sensorValueTrace)
        /\ Len(runLearning) = Len(classificationAccuracyTrace)
        /\ Len(runLearning) <= numRecords
        /\ numCorrectlyClassifiedRecords <= Len(runLearning)
        /\ tpc = "returned" => Len(runLearning) = numRecords
        /\ \A i \in 1..(Len(classificationAccuracyTrace) - 1) :
             classificationAccuracyTrace[i] <= classificationAccuracyTrace[i + 1]
        /\ \A i \in 1..Len(classificationAccuracyTrace) :
             classificationAccuracyTrace[i] <= 10000)
  /\ [][/\ Len(runLearning') \in {Len(runLearning), Len(runLearning) + 1}
        /\ numCorrectlyClassifiedRecords' =
             IF Len(runLearning') > Len(runLearning) /\ actualValue' = inferredValue'
             THEN numCorrectlyClassifiedRecords + 1
             ELSE numCorrectlyClassifiedRecords]_vars

\* C9 witness: a returned call with every record run, some classified
\* correctly and some not.
C9_Witness ==
  /\ tpc = "returned"
  /\ numRecords = MaxRecords
  /\ numCorrectlyClassifiedRecords > 0
  /\ numCorrectlyClassifiedRecords < numRecords
  /\ actualValue # inferredValue

(***************************************************************************)
(* Properties of configureNetwork and createNetwork (under SpecConfigure)  *)
(***************************************************************************)

IntermediateStages == {"sp", "tm", "tp"}

StageOrder == <<"sensor", "sp", "tm", "tp", "classifier">>

Position(stage) == CHOOSE i \in 1..Len(StageOrder) : StageOrder[i] = stage

Created(stage) == stage \in DOMAIN regions

\* The stages the configuration asks for: sensor and classifier always.
Wanted(stage) == stage \in {"sensor", "classifier"} \/ cfg.enabled[stage]

\* The nearest stage before `stage`, in the fixed order, that is wanted.
NearestPreceding(stage) ==
  LET before == {s \in StageNames : Position(s) < Position(stage) /\ Wanted(s)}
  IN CHOOSE s \in before : \A t \in before : Position(t) <= Position(s)

\* The output width a stage hands to the next one.
OutputWidth(stage) ==
  IF stage = "sensor" THEN cfg.encoderWidth
  ELSE IF stage = "sp" THEN cfg.spColumnCount
  ELSE cfg.tmColumnCount * cfg.cellsPerColumn

\* The width the created region of a stage takes as its input.
ExpectedWidth(stage) ==
  IF stage = "tm" THEN regions[stage].columnCount ELSE regions[stage].inputWidth

Mismatch(stage) ==
  /\ cfg.enabled[stage]
  /\ Created(stage)
  /\ OutputWidth(NearestPreceding(stage)) # ExpectedWidth(stage)

DataLinksInto(stage) ==
  {i \in 1..Len(links) : links[i][2] = stage /\ links[i][3] = "data"}

CreateNetworkEnded ==
  /\ cpc \in {"done", "initialize"}
  /\ cfg.entry \in {"configureNetwork", "createNetwork"}
  /\ Created("sensor")
  /\ sensorEncoder # "None"

\* C5: createNetwork raises ValueError, and returns no network, whenever the
\* output width of the preceding stage (encoder width after the sensor,
\* columnCount after the SP, columnCount * cellsPerColumn after the TM) differs
\* from the width the next enabled stage takes; it raises it only then.
C5_WidthsValidated ==
  CreateNetworkEnded =>
    /\ (\E s \in IntermediateStages : Mismatch(s))
         <=> result = "ValueError: Region widths do not fit"
    /\ result = "ValueError: Region widths do not fit" =>
         /\ ~Created("classifier")
         /\ ~initialized
    /\ (cpc = "initialize" \/ result = "network") =>
         \A s \in IntermediateStages : cfg.enabled[s] => Created(s)

\* C5 witness: the TM follows an enabled SP whose columnCount differs from the
\* TM's, and createNetwork has raised.
C5_Witness ==
  /\ cpc = "done"
  /\ result = "ValueError: Region widths do not fit"
  /\ cfg.enabled["sp"]
  /\ Created("tm")
  /\ cfg.spColumnCount # cfg.tmColumnCount

\* C6: a returned network is the single chain sensor, SP, TM, TP, classifier
\* restricted to the enabled stages: sensor and classifier exist whatever
\* their own regionEnabled, every enabled intermediate region and the
\* classifier have exactly one data link, from the nearest preceding created
\* stage, and a disabled stage is neither created nor linked.
C6_SingleChain ==
  result = "network" =>
    /\ DOMAIN regions = {s \in StageNames : Wanted(s)}
    /\ \A s \in StageNames \ {"sensor"} :
         Wanted(s) =>
           /\ Cardinality(DataLinksInto(s)) = 1
           /\ \A i \in DataLinksInto(s) : links[i][1] = NearestPreceding(s)
    /\ DataLinksInto("sensor") = {}
    /\ \A i \in 1..Len(links) :
         /\ Wanted(links[i][1])
         /\ Wanted(links[i][2])

\* C6 witness: a network returned with the TM disabled between an enabled SP
\* and TP, and with the sensor's and classifier's own flags off.
C6_Witness ==
  /\ result = "network"
  /\ cfg.enabled["sp"]
  /\ ~cfg.enabled["tm"]
  /\ cfg.enabled["tp"]
  /\ ~cfg.enabled["sensor"]
  /\ ~cfg.enabled["classifier"]

NoEncoderSpec == cfg.encoders \in {"absent", "None", "emptyDict"}

\* C7: with no encoder specification in the configuration (absent, None or
\* empty) and an encoder object passed, configureNetwork raises no error over
\* the encoder and the sensor region's encoder is the passed object.
C7_EncoderObjectAccepted ==
  (/\ cfg.entry = "configureNetwork"
   /\ cpc = "done"
   /\ NoEncoderSpec
   /\ cfg.encoder = "encoderObject") =>
    /\ result \notin {"AttributeError", "KeyError", "TypeError",
                      "ValueError: No encoder specified"}
    /\ sensorEncoder = "encoderObject"

\* What holds instead: the encoder object is accepted with an empty dict only.
EncoderObjectAcceptedWithEmptyDict ==
  (/\ cfg.entry = "configureNetwork"
   /\ cpc = "done"
   /\ cfg.encoder = "encoderObject") =>
    /\ cfg.encoders = "emptyDict" => sensorEncoder = "encoderObject"
    /\ cfg.encoders \in {"absent", "None"} =>
         result = "AttributeError" /\ ~Created("sensor")

\* C8: configureNetwork raises ValueError, with no region created and the data
\* source not read, whenever the configuration has no encoder specification
\* and no encoder is passed; and _createEncoder raises TypeError whenever its
\* argument is not a dict.
C8_InputValidation ==
  /\ (/\ cfg.entry = "configureNetwork"
      /\ cpc # "configureNetwork"
      /\ NoEncoderSpec
      /\ cfg.encoder = "None") =>
       /\ cpc = "done"
       /\ result = "ValueError: No encoder specified"
       /\ DOMAIN regions = {}
       /\ ~dataSourceRead
       /\ ~initialized
  /\ (cfg.entry = "_createEncoder" /\ ~IsDict(cfg.encoders)) =>
       result = "TypeError"

\* C8 witness: configureNetwork has raised for an empty encoder dict and no
\* encoder argument.
C8_Witness ==
  /\ cfg.entry = "configureNetwork"
  /\ cpc = "done"
  /\ cfg.encoders = "emptyDict"
  /\ cfg.encoder = "None"
  /\ result = "ValueError: No encoder specified"

====
